---- MODULE Spec2Model ----
(***************************************************************************)
(* Launchman (src/main.py): the app registry with its port allocator and   *)
(* the process supervisor (liveness check, launcher, terminator, shutdown  *)
(* sweep), with the OS process table and TCP port space as environment.    *)
(*                                                                         *)
(* Every HTTP handler is an `async def` without an await and the shutdown  *)
(* hook is a plain function called on the event loop, so handlers never    *)
(* interleave with each other.  A handler is one action, except where it   *)
(* blocks on the clock: proc.wait(timeout=5) in stop_app_process and       *)
(* time.sleep(0.5) in start_app.  There the handler is suspended (pc, cur) *)
(* and only the environment can move until it resumes.                     *)
(***************************************************************************)
EXTENDS Integers, FiniteSets, Sequences, TLC

\* ------------------------------------------------------------ bounds ----
NumIds == 2
MaxProcs == 2
PortSpan == 2

\* ------------------------------------------------- program constants ----
DashboardPort == 8000
CliPort == 0

Ids == 1..NumIds
Pids == 1..MaxProcs
NoId == 0
NoProc == 0
NoPort == -1
None == "None"

MaxPort == DashboardPort + PortSpan
PrefPorts == {CliPort, DashboardPort - 1, DashboardPort}
RegPorts == PrefPorts \cup {DashboardPort + 1}
ListenPorts == {DashboardPort - 1}
Paths == {"", "dir"}
Commands == {"", "cmd"}
Edits == {<<None, None>>, <<"", None>>, <<None, "">>, <<"dir", "cmd">>}

VARIABLES apps, running_processes, procs, listening, pc, cur, last

vars == <<apps, running_processes, procs, listening, pc, cur, last>>

\* ----------------------------------------------------------- helpers ----
Max(S) == CHOOSE m \in S : \A x \in S : x <= m

Registered(a) == DOMAIN a

NoSignals == {}

\* `cur` is the request suspended in proc.wait or time.sleep, with the locals
\* it resumes with.
Suspended(op, id, todo, sigs, why, tracked, spawned) ==
    [op |-> op, id |-> id, todo |-> todo, sigs |-> sigs, why |-> why,
     tracked |-> tracked, spawned |-> spawned]

Idle == Suspended("none", NoId, {}, NoSignals, "", FALSE, NoProc)

Outcome(op, id, out, ret, pref, why, tracked, spawned, sigs) ==
    [op |-> op, id |-> id, out |-> out, ret |-> ret, pref |-> pref,
     why |-> why, tracked |-> tracked, spawned |-> spawned, sigs |-> sigs]

\* `last` is the outcome of the latest registry or lifecycle request; a step
\* of the environment, and a request that has no outcome of interest, clears
\* it.
Quiet == Outcome("none", NoId, "", FALSE, NoPort, "", FALSE, NoProc, NoSignals)

\* ---------------------------------------------------- port allocator ----
get_used_ports(a, exclude_id) ==
    {a[i].port : i \in Registered(a) \ {exclude_id}}

\* Faulty variants of find_available_port (port 0 handed out to every app
\* that asks for it; 8000 not reserved; the registry not consulted;
\* exclude_id ignored; first free port above the preferred one), against
\* which the allocator properties are tested.
find_available_port_cli(a, preferred, exclude_id) ==
    LET used == get_used_ports(a, exclude_id) \cup {DashboardPort}
    IN  IF preferred = CliPort \/ preferred \notin used THEN preferred
        ELSE Max(used) + 1

find_available_port_nores(a, preferred, exclude_id) ==
    LET used == get_used_ports(a, exclude_id)
    IN  IF preferred \notin used THEN preferred
        ELSE Max(used) + 1

find_available_port_noreg(a, preferred, exclude_id) ==
    LET used == {DashboardPort}
    IN  IF preferred \notin used THEN preferred
        ELSE Max(used) + 1

find_available_port_noexcl(a, preferred, exclude_id) ==
    LET used == get_used_ports(a, NoId) \cup {DashboardPort}
    IN  IF preferred \notin used THEN preferred
        ELSE Max(used) + 1

find_available_port_gap(a, preferred, exclude_id) ==
    LET used == get_used_ports(a, exclude_id) \cup {DashboardPort}
    IN  IF preferred \notin used THEN preferred
        ELSE CHOOSE p \in (preferred + 1)..(Max(used) + 1) :
                 /\ p \notin used
                 /\ \A q \in (preferred + 1)..(p - 1) : q \in used

find_available_port(a, preferred, exclude_id) ==
    LET used == get_used_ports(a, exclude_id) \cup {DashboardPort}
    IN  IF preferred \notin used THEN preferred
        ELSE Max(used) + 1

\* ---------------------------------------------------- liveness oracle ----
\* connect_ex(('127.0.0.1', port)) == 0.  `lst` is the set of TCP ports with
\* a listener; no socket listens on port 0, and connecting to it is refused.
is_port_in_use(lst, port) == port \in lst

\* Faulty variants of is_app_running: an exited tracked process still
\* counts as running; the table is not consulted at all; the port is probed
\* even when the tracked process is alive.
is_app_running_probed(tbl, prc, lst, app_id, port) ==
    IF tbl[app_id] # NoProc /\ prc[tbl[app_id]] = "alive"
    THEN [ret |-> is_port_in_use(lst, port), tbl |-> tbl, prc |-> prc]
    ELSE [ret |-> is_port_in_use(lst, port),
          tbl |-> [tbl EXCEPT ![app_id] = NoProc],
          prc |-> IF tbl[app_id] # NoProc
                  THEN [prc EXCEPT ![tbl[app_id]] = "none"]
                  ELSE prc]

is_app_running_stale(tbl, prc, lst, app_id, port) ==
    IF tbl[app_id] # NoProc /\ prc[tbl[app_id]] = "alive"
    THEN [ret |-> TRUE, tbl |-> tbl, prc |-> prc]
    ELSE [ret |-> tbl[app_id] # NoProc \/ is_port_in_use(lst, port),
          tbl |-> [tbl EXCEPT ![app_id] = NoProc],
          prc |-> IF tbl[app_id] # NoProc
                  THEN [prc EXCEPT ![tbl[app_id]] = "none"]
                  ELSE prc]

is_app_running_portonly(tbl, prc, lst, app_id, port) ==
    [ret |-> is_port_in_use(lst, port), tbl |-> tbl, prc |-> prc]

is_app_running(tbl, prc, lst, app_id, port) ==
    IF tbl[app_id] # NoProc /\ prc[tbl[app_id]] = "alive"
    THEN [ret |-> TRUE, tbl |-> tbl, prc |-> prc]
    ELSE [ret |-> is_port_in_use(lst, port),
          tbl |-> [tbl EXCEPT ![app_id] = NoProc],
          prc |-> IF tbl[app_id] # NoProc
                  THEN [prc EXCEPT ![tbl[app_id]] = "none"]
                  ELSE prc]

\* ----------------------------------------------------------- launcher ----
FreePid(prc) == CHOOSE p \in Pids : prc[p] = "none" /\ \A q \in Pids : prc[q] = "none" => p <= q

\* Faulty variants of start_app_process: without the already-running check;
\* without the configuration check; a handle is written although the spawn
\* failed.
start_app_process_leak(app_id, app, tbl, prc, lst, spawnOK) ==
    IF app.command = "" \/ app.path = ""
    THEN [ret |-> FALSE, why |-> "invalid", tbl |-> tbl, prc |-> prc, spawned |-> NoProc]
    ELSE LET r == is_app_running(tbl, prc, lst, app_id, app.port)
         IN  IF r.ret
             THEN [ret |-> TRUE, why |-> "already", tbl |-> r.tbl, prc |-> r.prc,
                   spawned |-> NoProc]
             ELSE LET pid == FreePid(r.prc)
                  IN  [ret |-> spawnOK,
                       why |-> IF spawnOK THEN "started" ELSE "spawnfail",
                       tbl |-> [r.tbl EXCEPT ![app_id] = pid],
                       prc |-> [r.prc EXCEPT ![pid] = IF spawnOK THEN "alive"
                                                      ELSE "exited"],
                       spawned |-> IF spawnOK THEN pid ELSE NoProc]

start_app_process_norun(app_id, app, tbl, prc, lst, spawnOK) ==
    IF app.command = "" \/ app.path = ""
    THEN [ret |-> FALSE, why |-> "invalid", tbl |-> tbl, prc |-> prc, spawned |-> NoProc]
    ELSE IF spawnOK
         THEN LET pid == FreePid(prc)
              IN  [ret |-> TRUE, why |-> "started",
                   tbl |-> [tbl EXCEPT ![app_id] = pid],
                   prc |-> [prc EXCEPT ![pid] = "alive"],
                   spawned |-> pid]
         ELSE [ret |-> FALSE, why |-> "spawnfail", tbl |-> tbl, prc |-> prc,
               spawned |-> NoProc]

start_app_process_nocfg(app_id, app, tbl, prc, lst, spawnOK) ==
    LET r == is_app_running(tbl, prc, lst, app_id, app.port)
    IN  IF r.ret
        THEN [ret |-> TRUE, why |-> "already", tbl |-> r.tbl, prc |-> r.prc,
              spawned |-> NoProc]
        ELSE IF spawnOK
             THEN LET pid == FreePid(r.prc)
                  IN  [ret |-> TRUE, why |-> "started",
                       tbl |-> [r.tbl EXCEPT ![app_id] = pid],
                       prc |-> [r.prc EXCEPT ![pid] = "alive"],
                       spawned |-> pid]
             ELSE [ret |-> FALSE, why |-> "spawnfail", tbl |-> r.tbl,
                   prc |-> r.prc, spawned |-> NoProc]

\* Lines 165-177 rewrite the command string only (venv interpreter); the
\* string is opaque to everything else, so only its emptiness is kept.
start_app_process(app_id, app, tbl, prc, lst, spawnOK) ==
    IF app.command = "" \/ app.path = ""
    THEN [ret |-> FALSE, why |-> "invalid", tbl |-> tbl, prc |-> prc, spawned |-> NoProc]
    ELSE LET r == is_app_running(tbl, prc, lst, app_id, app.port)
         IN  IF r.ret
             THEN [ret |-> TRUE, why |-> "already", tbl |-> r.tbl, prc |-> r.prc,
                   spawned |-> NoProc]
             ELSE IF spawnOK
                  THEN LET pid == FreePid(r.prc)
                       IN  [ret |-> TRUE, why |-> "started",
                            tbl |-> [r.tbl EXCEPT ![app_id] = pid],
                            prc |-> [r.prc EXCEPT ![pid] = "alive"],
                            spawned |-> pid]
                  ELSE [ret |-> FALSE, why |-> "spawnfail", tbl |-> r.tbl,
                        prc |-> r.prc, spawned |-> NoProc]

\* --------------------------------------------------------- terminator ----
SigTerm(pid) == <<"pgid", pid, "SIGTERM">>
SigKill(pid) == <<"pgid", pid, "SIGKILL">>
SigTermPort(port) == <<"pid-on-port", port, "SIGTERM">>

\* lsof -ti :port. `visible` is whether lsof can see the owner of the socket
\* (lsof missing, timing out or lacking permission all end in "no pids").
lsof(lst, port, visible) == IF port \in lst /\ visible THEN {port} ELSE {}

\* Faulty variant of kill_by_port: an empty lsof output is not noticed.
kill_by_port_noempty(lst, port, visible, delivered) ==
    IF port <= 0 THEN [ret |-> FALSE, sigs |-> NoSignals]
    ELSE LET pids == lsof(lst, port, visible)
         IN  [ret |-> TRUE,
              sigs |-> IF delivered THEN {SigTermPort(q) : q \in pids}
                       ELSE NoSignals]

kill_by_port(lst, port, visible, delivered) ==
    IF port <= 0 THEN [ret |-> FALSE, sigs |-> NoSignals]
    ELSE LET pids == lsof(lst, port, visible)
         IN  IF pids = {} THEN [ret |-> FALSE, sigs |-> NoSignals]
             ELSE [ret |-> TRUE,
                   sigs |-> IF delivered THEN {SigTermPort(q) : q \in pids}
                            ELSE NoSignals]

\* stop_app_process, lines 216-220: no handle is tracked.
stop_untracked(lst, port, visible, delivered) ==
    IF port > 0
    THEN LET k == kill_by_port(lst, port, visible, delivered)
         IN  [ret |-> k.ret, sigs |-> k.sigs]
    ELSE [ret |-> FALSE, sigs |-> NoSignals]

\* stop_app_process, lines 199-204: the handle is tracked and killpg
\* succeeds.  SIGTERM goes to the process group and the caller blocks in
\* proc.wait(timeout=5).
stop_tracked_begin(op, app_id, todo, sigs) ==
    Suspended(op, app_id, todo, sigs \cup {SigTerm(running_processes[app_id])},
              "", TRUE, NoProc)

\* stop_app_process, lines 201-214, when the group cannot be signalled
\* (killpg raises, e.g. PermissionError for a command that changed its
\* user): the SIGTERM raises before proc.wait, the SIGKILL of the except
\* branch raises as well and is swallowed, the handle is evicted and True
\* returned.  No signal was delivered and the process is left as it was,
\* untracked.
\* Faulty variant: the handle is kept when the group could not be signalled.
stop_tracked_unsignalled_keep(tbl, prc, app_id, sigs) ==
    [ret |-> TRUE, tbl |-> tbl, prc |-> prc, sigs |-> sigs]

stop_tracked_unsignalled(tbl, prc, app_id, sigs) ==
    LET pid == tbl[app_id]
    IN  [ret |-> TRUE,
         tbl |-> [tbl EXCEPT ![app_id] = NoProc],
         prc |-> [prc EXCEPT ![pid] = "none"],
         sigs |-> sigs]

\* stop_app_process, lines 204-214: proc.wait returns (the process exited
\* within the 5 s grace period) or raises TimeoutExpired, answered by SIGKILL
\* to the group; then the handle is evicted and True returned.
\* Faulty variants: no SIGKILL after the timeout; the handle is kept when
\* the exit was not confirmed.
stop_tracked_end_nokill(tbl, prc, app_id, sigs) ==
    LET pid == tbl[app_id]
    IN  [ret |-> TRUE,
         tbl |-> [tbl EXCEPT ![app_id] = NoProc],
         prc |-> [prc EXCEPT ![pid] = "none"],
         sigs |-> sigs]

stop_tracked_end_keep(tbl, prc, app_id, sigs) ==
    LET pid == tbl[app_id]
    IN  [ret |-> TRUE,
         tbl |-> IF prc[pid] = "exited" THEN [tbl EXCEPT ![app_id] = NoProc] ELSE tbl,
         prc |-> IF prc[pid] = "exited" THEN [prc EXCEPT ![pid] = "none"] ELSE prc,
         sigs |-> IF prc[pid] = "exited" THEN sigs ELSE sigs \cup {SigKill(pid)}]

stop_tracked_end(tbl, prc, app_id, sigs) ==
    LET pid == tbl[app_id]
    IN  [ret |-> TRUE,
         tbl |-> [tbl EXCEPT ![app_id] = NoProc],
         prc |-> [prc EXCEPT ![pid] = "none"],
         sigs |-> IF prc[pid] = "exited" THEN sigs ELSE sigs \cup {SigKill(pid)}]

\* ------------------------------------------------------- registry CRUD ----
AppRecord(port, path, command) == [port |-> port, path |-> path, command |-> command]

Remove(a, app_id) == [j \in Registered(a) \ {app_id} |-> a[j]]

\* POST /api/apps.  The new id is the first 8 hex digits of a fresh uuid4,
\* taken to differ from every registered id.
add_app(pref, path, command) ==
    /\ pc = "idle"
    /\ \E app_id \in Ids \ Registered(apps) :
         LET port == find_available_port(apps, pref, NoId)
         IN  /\ port <= MaxPort
             /\ apps' = apps @@ (app_id :> AppRecord(port, path, command))
             /\ last' = Outcome("add", app_id, "ok", FALSE, pref, "", FALSE,
                                NoProc, NoSignals)
    /\ UNCHANGED <<running_processes, procs, listening, pc, cur>>

\* PUT /api/apps/{app_id}.  A field given as None is left alone.
update_app(app_id, port, path, command) ==
    /\ pc = "idle"
    /\ IF app_id \notin Registered(apps)
       THEN /\ last' = Outcome("update", app_id, "NotFound", FALSE, port, "",
                               FALSE, NoProc, NoSignals)
            /\ UNCHANGED <<apps, running_processes, procs>>
       ELSE LET old == apps[app_id]
                new == AppRecord(
                         IF port # NoPort
                         THEN find_available_port(apps, port, app_id)
                         ELSE old.port,
                         IF path # None THEN path ELSE old.path,
                         IF command # None THEN command ELSE old.command)
                r == is_app_running(running_processes, procs, listening,
                                    app_id, new.port)
            IN  /\ new.port <= MaxPort
                /\ apps' = [apps EXCEPT ![app_id] = new]
                /\ running_processes' = r.tbl
                /\ procs' = r.prc
                /\ last' = Outcome("update", app_id, "ok", r.ret, port, "",
                                   running_processes[app_id] # NoProc, NoProc,
                                   NoSignals)
    /\ UNCHANGED <<listening, pc, cur>>

\* DELETE /api/apps/{app_id}: stop_app_process, then drop the record.
\* Faulty variant: the record is dropped without stopping the app.
delete_app_nostop(app_id, visible, delivered) ==
    /\ pc = "idle"
    /\ IF app_id \notin Registered(apps)
       THEN /\ last' = Outcome("delete", app_id, "NotFound", FALSE, NoPort, "",
                               FALSE, NoProc, NoSignals)
            /\ UNCHANGED apps
       ELSE /\ apps' = Remove(apps, app_id)
            /\ last' = Outcome("delete", app_id, "ok", FALSE, NoPort, "",
                               running_processes[app_id] # NoProc, NoProc,
                               NoSignals)
    /\ UNCHANGED <<running_processes, procs, listening, pc, cur>>

delete_app(app_id, visible, delivered) ==
    /\ pc = "idle"
    /\ IF app_id \notin Registered(apps)
       THEN /\ last' = Outcome("delete", app_id, "NotFound", FALSE, NoPort, "",
                               FALSE, NoProc, NoSignals)
            /\ UNCHANGED <<apps, running_processes, procs, pc, cur>>
       ELSE IF running_processes[app_id] # NoProc
       THEN \E signalled \in BOOLEAN :
              IF signalled
              THEN /\ pc' = "wait"
                   /\ cur' = stop_tracked_begin("delete", app_id, {}, NoSignals)
                   /\ last' = Quiet
                   /\ UNCHANGED <<apps, running_processes, procs>>
              ELSE LET s == stop_tracked_unsignalled(running_processes, procs,
                                                     app_id, NoSignals)
                   IN  /\ running_processes' = s.tbl
                       /\ procs' = s.prc
                       /\ apps' = Remove(apps, app_id)
                       /\ last' = Outcome("delete", app_id, "ok", s.ret, NoPort,
                                          "", TRUE, NoProc, s.sigs)
                       /\ UNCHANGED <<pc, cur>>
       ELSE LET s == stop_untracked(listening, apps[app_id].port, visible, delivered)
            IN  /\ apps' = Remove(apps, app_id)
                /\ last' = Outcome("delete", app_id, "ok", s.ret, NoPort, "",
                                   FALSE, NoProc, s.sigs)
                /\ UNCHANGED <<running_processes, procs, pc, cur>>
    /\ UNCHANGED listening

\* ---------------------------------------------------------- supervisor ----
\* POST /api/apps/{app_id}/start up to time.sleep(0.5).
start_app(app_id, spawnOK) ==
    /\ pc = "idle"
    /\ IF app_id \notin Registered(apps)
       THEN /\ last' = Outcome("start", app_id, "NotFound", FALSE, NoPort, "",
                               FALSE, NoProc, NoSignals)
            /\ UNCHANGED <<running_processes, procs, pc, cur>>
       ELSE LET app == apps[app_id]
                tracked == running_processes[app_id] # NoProc
                r == is_app_running(running_processes, procs, listening,
                                    app_id, app.port)
                s == start_app_process(app_id, app, r.tbl, r.prc, listening, spawnOK)
            IN  IF r.ret
                THEN /\ running_processes' = r.tbl
                     /\ procs' = r.prc
                     /\ last' = Outcome("start", app_id, "AlreadyRunning", TRUE,
                                        NoPort, "", tracked, NoProc, NoSignals)
                     /\ UNCHANGED <<pc, cur>>
                ELSE /\ running_processes' = s.tbl
                     /\ procs' = s.prc
                     /\ IF s.ret
                        THEN /\ pc' = "settle"
                             /\ cur' = Suspended("start", app_id, {}, NoSignals,
                                                  s.why, tracked, s.spawned)
                             /\ last' = Quiet
                        ELSE /\ last' = Outcome("start", app_id, "Failed", FALSE,
                                                NoPort, s.why, tracked, s.spawned,
                                                NoSignals)
                             /\ UNCHANGED <<pc, cur>>
    /\ UNCHANGED <<apps, listening>>

\* start_app after time.sleep(0.5): the liveness check that fills "running".
start_app_settled ==
    /\ pc = "settle"
    /\ LET r == is_app_running(running_processes, procs, listening, cur.id,
                               apps[cur.id].port)
       IN  /\ running_processes' = r.tbl
           /\ procs' = r.prc
           /\ last' = Outcome("start", cur.id, "Started", r.ret, NoPort,
                              cur.why, cur.tracked, cur.spawned, NoSignals)
    /\ pc' = "idle"
    /\ cur' = Idle
    /\ UNCHANGED <<apps, listening>>

\* POST /api/apps/{app_id}/stop up to proc.wait, or all of it when no handle
\* is tracked.  The handler answers "Stopped" whatever stop_app_process
\* returned; ret keeps that return value.
stop_app(app_id, visible, delivered) ==
    /\ pc = "idle"
    /\ IF app_id \notin Registered(apps)
       THEN /\ last' = Outcome("stop", app_id, "NotFound", FALSE, NoPort, "",
                               FALSE, NoProc, NoSignals)
            /\ UNCHANGED <<running_processes, procs, pc, cur>>
       ELSE IF running_processes[app_id] # NoProc
       THEN \E signalled \in BOOLEAN :
              IF signalled
              THEN /\ pc' = "wait"
                   /\ cur' = stop_tracked_begin("stop", app_id, {}, NoSignals)
                   /\ last' = Quiet
                   /\ UNCHANGED <<running_processes, procs>>
              ELSE LET s == stop_tracked_unsignalled(running_processes, procs,
                                                     app_id, NoSignals)
                   IN  /\ running_processes' = s.tbl
                       /\ procs' = s.prc
                       /\ last' = Outcome("stop", app_id, "Stopped", s.ret,
                                          NoPort, "", TRUE, NoProc, s.sigs)
                       /\ UNCHANGED <<pc, cur>>
       ELSE LET s == stop_untracked(listening, apps[app_id].port, visible, delivered)
            IN  /\ last' = Outcome("stop", app_id, "Stopped", s.ret, NoPort, "",
                                   FALSE, NoProc, s.sigs)
                /\ UNCHANGED <<running_processes, procs, pc, cur>>
    /\ UNCHANGED <<apps, listening>>

\* GET /api/apps/{app_id}/status.
\* Faulty variant: an unknown id is answered like an app that is not running.
app_status_nofound(app_id) ==
    /\ pc = "idle"
    /\ IF app_id \notin Registered(apps)
       THEN /\ last' = Outcome("status", app_id, "ok", FALSE, NoPort, "",
                               FALSE, NoProc, NoSignals)
            /\ UNCHANGED <<running_processes, procs>>
       ELSE LET r == is_app_running(running_processes, procs, listening,
                                    app_id, apps[app_id].port)
            IN  /\ running_processes' = r.tbl
                /\ procs' = r.prc
                /\ last' = Outcome("status", app_id, "ok", r.ret, NoPort, "",
                                   running_processes[app_id] # NoProc, NoProc,
                                   NoSignals)
    /\ UNCHANGED <<apps, listening, pc, cur>>

app_status(app_id) ==
    /\ pc = "idle"
    /\ IF app_id \notin Registered(apps)
       THEN /\ last' = Outcome("status", app_id, "NotFound", FALSE, NoPort, "",
                               FALSE, NoProc, NoSignals)
            /\ UNCHANGED <<running_processes, procs>>
       ELSE LET r == is_app_running(running_processes, procs, listening,
                                    app_id, apps[app_id].port)
            IN  /\ running_processes' = r.tbl
                /\ procs' = r.prc
                /\ last' = Outcome("status", app_id, "ok", r.ret, NoPort, "",
                                   running_processes[app_id] # NoProc, NoProc,
                                   NoSignals)
    /\ UNCHANGED <<apps, listening, pc, cur>>

\* GET /api/apps/{app_id}.
get_app(app_id) ==
    /\ pc = "idle"
    /\ IF app_id \notin Registered(apps)
       THEN /\ last' = Quiet
            /\ UNCHANGED <<running_processes, procs>>
       ELSE LET r == is_app_running(running_processes, procs, listening,
                                    app_id, apps[app_id].port)
            IN  /\ running_processes' = r.tbl
                /\ procs' = r.prc
                /\ last' = Quiet
    /\ UNCHANGED <<apps, listening, pc, cur>>

\* GET /api/apps: is_app_running on every registered app; the calls touch
\* disjoint handles, so their order does not matter.
list_apps ==
    /\ pc = "idle"
    /\ LET evict == {i \in Registered(apps) :
                       /\ running_processes[i] # NoProc
                       /\ procs[running_processes[i]] # "alive"}
       IN  /\ running_processes' = [i \in Ids |-> IF i \in evict THEN NoProc
                                                  ELSE running_processes[i]]
           /\ procs' = [p \in Pids |->
                          IF \E i \in evict : running_processes[i] = p
                          THEN "none" ELSE procs[p]]
    /\ last' = Quiet
    /\ UNCHANGED <<apps, listening, pc, cur>>

\* The shutdown hook, line 379: the snapshot list(running_processes.keys())
\* is taken; cur.todo holds the keys the loop has still to visit.
shutdown_event ==
    /\ pc = "idle"
    /\ pc' = "sweep"
    /\ cur' = Suspended("shutdown", NoId,
                        {i \in Ids : running_processes[i] # NoProc},
                        NoSignals, "", FALSE, NoProc)
    /\ last' = Quiet
    /\ UNCHANGED <<apps, running_processes, procs, listening>>

\* The shutdown hook, lines 379-380: the loop takes the next key of the
\* snapshot and calls stop_app_process on it, up to proc.wait or, when the
\* group cannot be signalled, to its return; after the last key the hook
\* returns.
shutdown_next ==
    /\ pc = "sweep"
    /\ IF cur.todo = {}
       THEN /\ pc' = "down"
            /\ cur' = Idle
            /\ last' = Outcome("shutdown", NoId, "ok", cur.tracked, NoPort, "",
                               cur.tracked, NoProc, cur.sigs)
            /\ UNCHANGED <<running_processes, procs>>
       ELSE \E j \in cur.todo, signalled \in BOOLEAN :
              IF signalled
              THEN /\ pc' = "wait"
                   /\ cur' = stop_tracked_begin("shutdown", j, cur.todo \ {j},
                                                cur.sigs)
                   /\ last' = Quiet
                   /\ UNCHANGED <<running_processes, procs>>
              ELSE LET s == stop_tracked_unsignalled(running_processes, procs,
                                                     j, cur.sigs)
                   IN  /\ running_processes' = s.tbl
                       /\ procs' = s.prc
                       /\ cur' = Suspended("shutdown", NoId, cur.todo \ {j},
                                           s.sigs, "", TRUE, NoProc)
                       /\ last' = Quiet
                       /\ UNCHANGED pc
    /\ UNCHANGED <<apps, listening>>

\* proc.wait(timeout=5) is over: the rest of stop_app_process on the tracked
\* path, then the rest of the handler that called it.
stop_wait_over ==
    /\ pc = "wait"
    /\ LET s == stop_tracked_end(running_processes, procs, cur.id, cur.sigs)
       IN  /\ running_processes' = s.tbl
           /\ procs' = s.prc
           /\ IF cur.op = "shutdown"
              THEN /\ pc' = "sweep"
                   /\ cur' = Suspended("shutdown", NoId, cur.todo, s.sigs, "",
                                       TRUE, NoProc)
                   /\ last' = Quiet
                   /\ UNCHANGED apps
              ELSE /\ cur' = Idle
                   /\ pc' = "idle"
                   /\ apps' = IF cur.op = "delete" THEN Remove(apps, cur.id)
                              ELSE apps
                   /\ last' = Outcome(cur.op, cur.id,
                                      IF cur.op = "stop" THEN "Stopped" ELSE "ok",
                                      s.ret, NoPort, "", TRUE, NoProc, s.sigs)
    /\ UNCHANGED listening

\* -------------------------------------------------------- environment ----

\* A spawned process exits by itself (or after a signal).
proc_exits(p) ==
    /\ pc # "down"
    /\ procs[p] = "alive"
    /\ procs' = [procs EXCEPT ![p] = "exited"]
    /\ last' = Quiet
    /\ UNCHANGED <<apps, running_processes, listening, pc, cur>>

\* Some process, spawned here or not, starts or stops listening on a port.
listener_up(port) ==
    /\ pc # "down"
    /\ port \notin listening
    /\ listening' = listening \cup {port}
    /\ last' = Quiet
    /\ UNCHANGED <<apps, running_processes, procs, pc, cur>>

listener_down(port) ==
    /\ pc # "down"
    /\ port \in listening
    /\ listening' = listening \ {port}
    /\ last' = Quiet
    /\ UNCHANGED <<apps, running_processes, procs, pc, cur>>

\* ----------------------------------------------------- specifications ----
Init ==
    /\ apps = <<>>
    /\ running_processes = [i \in Ids |-> NoProc]
    /\ procs = [p \in Pids |-> "none"]
    /\ listening = {DashboardPort}
    /\ pc = "idle"
    /\ cur = Idle
    /\ last = Quiet

Next ==
    \/ \E pref \in PrefPorts, path \in Paths, command \in Commands :
         add_app(pref, path, command)
    \/ \E app_id \in Ids, port \in PrefPorts \cup {NoPort}, e \in Edits :
         update_app(app_id, port, e[1], e[2])
    \/ \E app_id \in Ids, visible \in BOOLEAN, delivered \in BOOLEAN :
         delete_app(app_id, visible, delivered)
    \/ \E app_id \in Ids, spawnOK \in BOOLEAN : start_app(app_id, spawnOK)
    \/ start_app_settled
    \/ \E app_id \in Ids, visible \in BOOLEAN, delivered \in BOOLEAN :
         stop_app(app_id, visible, delivered)
    \/ \E app_id \in Ids : app_status(app_id)
    \/ \E app_id \in Ids : get_app(app_id)
    \/ list_apps
    \/ shutdown_event
    \/ shutdown_next
    \/ stop_wait_over
    \/ \E p \in Pids : proc_exits(p)
    \/ \E port \in ListenPorts : listener_up(port)
    \/ \E port \in ListenPorts : listener_down(port)

Spec == Init /\ [][Next]_vars

\* The registry operations alone, started from any apps.json that may be
\* found on disk (load_apps reads it anew in every handler): any ports,
\* shared or reserved ones included.  The path stays "dir" here; the command
\* is the other field that is edited.
Registries ==
    UNION {[I -> [port : RegPorts, path : {"dir"}, command : Commands]] :
           I \in SUBSET Ids}

RegEdits == {<<None, None>>, <<None, "">>, <<"dir", "cmd">>}

InitReg ==
    /\ apps \in Registries
    /\ running_processes = [i \in Ids |-> NoProc]
    /\ procs = [p \in Pids |-> "none"]
    /\ listening = {DashboardPort}
    /\ pc = "idle"
    /\ cur = Idle
    /\ last = Quiet

NextReg ==
    \/ \E pref \in RegPorts, command \in Commands :
         add_app(pref, "dir", command)
    \/ \E app_id \in Ids, port \in RegPorts \cup {NoPort}, e \in RegEdits :
         update_app(app_id, port, e[1], e[2])
    \/ \E app_id \in Ids, visible \in BOOLEAN, delivered \in BOOLEAN :
         delete_app(app_id, visible, delivered)

SpecReg == InitReg /\ [][NextReg]_vars

\* -------------------------------------------------------- properties ----
PortsOf(a, I) == {a[j].port : j \in I}

NoSharedPort(a) ==
    \A i, j \in Registered(a) :
        (i # j /\ a[i].port # CliPort) => a[i].port # a[j].port

\* C1: every add_app, update_app and delete_app step taken from a registry
\* in which no two apps share a non-zero port ends in such a registry.
C1_NoSharedNonZeroPort == [][NoSharedPort(apps) => NoSharedPort(apps')]_vars

\* C1 witness: a request asked for a port another app holds, was given a
\* different one, and the registry of two apps has no shared non-zero port.
C1_Witness ==
    /\ last.op \in {"add", "update"}
    /\ last.out = "ok"
    /\ last.pref \in PortsOf(apps, Registered(apps) \ {last.id}) \ {CliPort}
    /\ apps[last.id].port # last.pref
    /\ NoSharedPort(apps)

\* The ports find_available_port may not hand out in a step that assigns a
\* port to app i: the dashboard port and the ports the other apps held.
Taken(a, i) == PortsOf(a, Registered(a) \ {i}) \cup {DashboardPort}

Assigns == last'.op \in {"add", "update"} /\ last'.out = "ok" /\ last'.pref # NoPort

\* C2: the port find_available_port returns to add_app (no exclude_id) or to
\* update_app (exclude_id the updated app) is neither 8000 nor the port of
\* any other app of the registry it was called on.
C2_NeverReservedOrUsed ==
    [][Assigns => apps'[last'.id].port \notin Taken(apps, last'.id)]_vars

\* C2 witness: the preferred port was 8000 or another app's, and the port
\* assigned is none of them.
C2_Witness ==
    /\ last.op \in {"add", "update"}
    /\ last.out = "ok"
    /\ last.pref \in Taken(apps, last.id)
    /\ apps[last.id].port \notin Taken(apps, last.id)

\* C3: a preferred port that is not 8000 and is held by no other app is
\* assigned as it is; hence an update_app that omits the port, or resubmits
\* the app's own port (not 8000, held by no other app), leaves the port
\* alone whatever path and command it edits.
C3_FreePreferredKept ==
    [][/\ (Assigns /\ last'.pref \notin Taken(apps, last'.id))
            => apps'[last'.id].port = last'.pref
       /\ (/\ last'.op = "update"
           /\ last'.out = "ok"
           /\ \/ last'.pref = NoPort
              \/ /\ last'.pref = apps[last'.id].port
                 /\ last'.pref \notin Taken(apps, last'.id))
            => apps'[last'.id].port = apps[last'.id].port]_vars

\* C3 witness: an update resubmitted the app's own port next to another app
\* and the port is still the one requested.
C3_Witness ==
    /\ last.op = "update"
    /\ last.out = "ok"
    /\ last.pref = apps[last.id].port
    /\ Cardinality(Registered(apps)) >= 2

\* C4: a preferred port that is 8000 or held by another app is replaced by
\* the successor of the largest of the other apps' ports and 8000, even when
\* a smaller port is free; so preferring 8000 gives 8001 when no app is
\* above 8000.
C4_HighestPlusOne ==
    [][(Assigns /\ last'.pref \in Taken(apps, last'.id)) =>
         LET got == apps'[last'.id].port
             used == Taken(apps, last'.id)
         IN  /\ got - 1 \in used
             /\ \A u \in used : u < got
             /\ (last'.pref = DashboardPort /\ \A u \in used : u <= DashboardPort)
                  => got = DashboardPort + 1]_vars

\* C4 witness: an app asked for 8000 and holds 8001.
C4_Witness ==
    /\ last.op = "add"
    /\ last.pref = DashboardPort
    /\ apps[last.id].port = DashboardPort + 1

Alive(i) == running_processes[i] # NoProc /\ procs[running_processes[i]] = "alive"

Tracked(i) == running_processes[i] # NoProc

\* C5: whenever is_app_running was called (by app_status, update_app or
\* start_app) on an app whose port is 0 and left no handle for it in the
\* table, it returned false.
C5_CliAppUntrackedNotRunning ==
    (/\ last.op \in {"status", "update", "start"}
     /\ last.out \in {"ok", "Started", "AlreadyRunning"}
     /\ last.id \in Registered(apps)
     /\ apps[last.id].port = CliPort
     /\ ~Tracked(last.id))
        => last.ret = FALSE

\* C5 witness: a status request on a port-0 app found its tracked process
\* exited, evicted the handle in that call and answered false.
C5_Witness ==
    /\ last.op = "status"
    /\ last.out = "ok"
    /\ apps[last.id].port = CliPort
    /\ last.tracked
    /\ ~Tracked(last.id)
    /\ last.ret = FALSE

\* The step starts no process, and writes no handle into the table.
NoSpawn == \A p \in Pids : procs'[p] = "alive" => procs[p] = "alive"

NoNewHandle ==
    \A j \in Ids : Tracked(j)' => running_processes'[j] = running_processes[j]

\* A step of start_app on app i, to its return or to time.sleep(0.5).
StartStep(i) == \E spawnOK \in BOOLEAN : start_app(i, spawnOK)

\* C6 as stated: a start_app that follows a successful start_app of the
\* same app, with nothing in between, spawns no process, answers "Already
\* running" and leaves a handle for the app in the table.
C6_SecondStartNoOp ==
    [][\A i \in Ids :
         (/\ last.op = "start"
          /\ last.id = i
          /\ last.out \in {"Started", "AlreadyRunning"}
          /\ StartStep(i))
            => /\ last'.op = "start"
               /\ last'.out = "AlreadyRunning"
               /\ NoSpawn
               /\ Tracked(i)']_vars

\* C6 amended: a start_app on an app whose handle is tracked and whose
\* process is alive spawns no process, answers "Already running" and leaves
\* the table, with that one handle, as it was.
C6_StartOfLiveAppNoOp ==
    [][\A i \in Ids :
         (Alive(i) /\ i \in Registered(apps) /\ StartStep(i))
            => /\ last'.op = "start"
               /\ last'.out = "AlreadyRunning"
               /\ last'.spawned = NoProc
               /\ pc' = "idle"
               /\ procs' = procs
               /\ running_processes' = running_processes]_vars

\* C6 witness: the second of two starts in a row found the process the
\* first one spawned alive and answered "Already running".
C6_Witness ==
    /\ last.op = "start"
    /\ last.out = "AlreadyRunning"
    /\ last.tracked
    /\ Alive(last.id)

\* What the next is_app_running call on app i returns, from this state.
RunningNow(i) ==
    is_app_running(running_processes, procs, listening, i, apps[i].port).ret

StoppedTracked == last.op = "stop" /\ last.out = "Stopped" /\ last.tracked /\ last.ret

\* C7 as stated: after a stop of a tracked app returned true, no handle for
\* the app is in the table and the next is_app_running call returns false.
C7_StoppedThenNotRunning ==
    StoppedTracked => (~Tracked(last.id) /\ ~RunningNow(last.id))

\* C7 amended: after a stop of a tracked app returned true, no handle for
\* the app is in the table and the next is_app_running call returns false
\* unless something listens on the app's port, and then true.
C7_StoppedThenPortDecides ==
    StoppedTracked =>
        /\ ~Tracked(last.id)
        /\ RunningNow(last.id) <=> (apps[last.id].port \in listening)

\* C7 witness: a tracked stop returned true and nothing listens on the port.
C7_Witness ==
    /\ StoppedTracked
    /\ apps[last.id].port \notin listening
    /\ ~RunningNow(last.id)

\* The signals the request that is resumed by this step has sent so far.
SentAfter == IF pc' \in {"wait", "sweep"} THEN cur'.sigs ELSE last'.sigs

\* C8: when proc.wait ends with the tracked process still alive, after
\* SIGTERM went to its group, SIGKILL goes to the group, the handle leaves
\* the table and stop_app_process returns true; and a stop that waits can
\* always go on.
C8_GraceExpiredKills ==
    /\ [][(stop_wait_over /\ Alive(cur.id)) =>
            /\ SigTerm(running_processes[cur.id]) \in cur.sigs
            /\ SigKill(running_processes[cur.id]) \in SentAfter
            /\ running_processes'[cur.id] = NoProc
            /\ (pc' = "idle" => last'.ret)]_vars
    /\ [](pc = "wait" => ENABLED stop_wait_over)

\* C8 witness: a stop of a tracked app ended with SIGTERM and SIGKILL sent
\* and the handle gone.
C8_Witness ==
    /\ last.op = "stop"
    /\ last.tracked
    /\ last.ret
    /\ \E p \in Pids : {SigTerm(p), SigKill(p)} \subseteq last.sigs
    /\ ~Tracked(last.id)

EmptyConfig(i) == apps[i].command = "" \/ apps[i].path = ""

\* C10 as stated: a start of a registered app with an empty command or
\* path fails as invalid, spawns nothing and creates no handle, in every
\* state.
C10_EmptyConfigFails ==
    [][\A i \in Ids :
         (i \in Registered(apps) /\ EmptyConfig(i) /\ StartStep(i))
            => /\ last'.op = "start"
               /\ last'.out = "Failed"
               /\ last'.why = "invalid"
               /\ NoSpawn
               /\ NoNewHandle]_vars

\* C10 amended: a start of a registered app with an empty command or path
\* spawns nothing and creates no handle; it fails (start_app_process returns
\* False at the configuration check) unless is_app_running already reports
\* the app running (a live tracked process, or a listener on its port), and
\* then it answers "Already running".
C10_EmptyConfigNeverSpawns ==
    [][\A i \in Ids :
         (i \in Registered(apps) /\ EmptyConfig(i) /\ StartStep(i))
            => /\ last'.op = "start"
               /\ last'.spawned = NoProc
               /\ pc' = "idle"
               /\ NoSpawn
               /\ NoNewHandle
               /\ IF Alive(i) \/ apps[i].port \in listening
                  THEN last'.out = "AlreadyRunning"
                  ELSE last'.out = "Failed" /\ last'.why = "invalid"]_vars

\* C10 witness: a start of an app with an empty command or path failed at
\* the configuration check.
C10_Witness ==
    /\ last.op = "start"
    /\ last.out = "Failed"
    /\ last.why = "invalid"
    /\ EmptyConfig(last.id)

\* A step of stop_app on app i, to its return or to proc.wait.
StopStep(i) == \E visible, delivered \in BOOLEAN : stop_app(i, visible, delivered)

\* C11: a start, stop or status request on an id that is not in the registry
\* answers NotFound and changes nothing: the registry and the handle table
\* are as before, no handle is evicted, no process is spawned, no signal is
\* sent and the request does not wait.
C11_UnknownIdChangesNothing ==
    [][\A i \in Ids :
         (i \notin Registered(apps) /\ (StartStep(i) \/ StopStep(i) \/ app_status(i)))
            => /\ last'.id = i
               /\ last'.op \in {"start", "stop", "status"}
               /\ last'.out = "NotFound"
               /\ last'.sigs = NoSignals
               /\ last'.spawned = NoProc
               /\ UNCHANGED <<apps, running_processes, procs, pc, cur>>]_vars

\* C11 witness: a lifecycle request on an unknown id was answered NotFound
\* while another app had a live tracked process.
C11_Witness ==
    /\ last.op \in {"start", "stop", "status"}
    /\ last.out = "NotFound"
    /\ last.id \notin Registered(apps)
    /\ \E j \in Registered(apps) : Alive(j)

\* The apps that have a handle in the table.
TrackedIds == {i \in Ids : Tracked(i)}

\* C12: when the shutdown hook has returned the handle table is empty.  On
\* the way, the handles tracked when the hook started are exactly those
\* already removed, the one being waited for and those still to visit; each
\* visit sends SIGTERM to the group and waits, or, when the group cannot be
\* signalled, removes the handle at once; and the end of each wait removes
\* the handle, after SIGKILL when the process had not exited.
C12_ShutdownEmptiesTable ==
    /\ [](pc = "down" => TrackedIds = {})
    /\ []((pc \in {"sweep", "wait"} /\ cur.op = "shutdown") =>
            TrackedIds = cur.todo \cup (IF pc = "wait" THEN {cur.id} ELSE {}))
    /\ [][(shutdown_next /\ cur.todo # {}) =>
            \E j \in cur.todo :
                /\ cur'.todo = cur.todo \ {j}
                /\ \/ /\ pc' = "wait"
                      /\ cur'.id = j
                      /\ SigTerm(running_processes[j]) \in cur'.sigs
                   \/ /\ pc' = "sweep"
                      /\ running_processes'[j] = NoProc]_vars
    /\ [][(stop_wait_over /\ cur.op = "shutdown") =>
            /\ running_processes'[cur.id] = NoProc
            /\ cur.sigs \subseteq cur'.sigs
            /\ Alive(cur.id) => SigKill(running_processes[cur.id]) \in cur'.sigs]_vars

\* C12 witness: the hook has returned, it had handles to stop, one of the
\* processes did not exit within the grace period, and the table is empty.
C12_Witness ==
    /\ pc = "down"
    /\ last.op = "shutdown"
    /\ last.tracked
    /\ \E p \in Pids : {SigTerm(p), SigKill(p)} \subseteq last.sigs
    /\ TrackedIds = {}

\* C13 as stated: while a stop request waits in proc.wait for the tracked
\* process of one app, a start, stop or status request on any other
\* registered app can be handled.  The handlers are coroutines that never
\* await and proc.wait blocks the thread of the event loop, so no handler
\* can take a step before stop_wait_over.
C13_OtherAppsServedDuringWait ==
    (pc = "wait" /\ cur.op = "stop") =>
        \A j \in Registered(apps) \ {cur.id} :
            /\ ENABLED app_status(j)
            /\ ENABLED StartStep(j)
            /\ ENABLED StopStep(j)

\* C13 witness: a stop request waits for the tracked process of one app
\* while another app is registered.
C13_Witness ==
    /\ pc = "wait"
    /\ cur.op = "stop"
    /\ Alive(cur.id)
    /\ Registered(apps) \ {cur.id} # {}

\* C14: is_app_running, as app_status calls it, on an app that has a handle.
\* When the process is alive it returns true whether or not anything
\* listens on the port, and the table is as before; when the process has
\* exited, that handle and no other leaves the table in the same call and
\* the result is that of the port probe.
C14_TrackedLiveOrEvicted ==
    [][\A i \in Registered(apps) :
         (Tracked(i) /\ app_status(i)) =>
            /\ last'.op = "status"
            /\ last'.id = i
            /\ IF Alive(i)
               THEN /\ last'.ret
                    /\ running_processes' = running_processes
                    /\ procs' = procs
               ELSE /\ running_processes' = [running_processes EXCEPT ![i] = NoProc]
                    /\ last'.ret = (apps[i].port \in listening)]_vars

\* C14 witness: a status request found the tracked process exited, evicted
\* its handle, answered true because something listens on the port, and
\* the handle of another app is still in the table.
C14_Witness ==
    /\ last.op = "status"
    /\ last.out = "ok"
    /\ last.tracked
    /\ ~Tracked(last.id)
    /\ last.ret
    /\ apps[last.id].port \in listening
    /\ \E j \in Ids \ {last.id} : Tracked(j)

\* C15: start_app_process writes a handle exactly when the spawn succeeds.
\* A start of an app with a complete configuration that is not running
\* either spawns a process and leaves its handle, and no other change, in
\* the table, or, when Popen raises, reports failure and leaves no entry
\* for the app; and no start leaves a handle for an app that had no live
\* process without having spawned one.
C15_HandleIffSpawned ==
    [][\A i \in Registered(apps) :
         /\ \A spawnOK \in BOOLEAN :
              (start_app(i, spawnOK) /\ ~EmptyConfig(i) /\ ~RunningNow(i)) =>
                 /\ \A j \in Ids \ {i} : running_processes'[j] = running_processes[j]
                 /\ IF spawnOK
                    THEN /\ pc' = "settle"
                         /\ Tracked(i)'
                         /\ cur'.spawned = running_processes'[i]
                         /\ procs[running_processes'[i]] # "alive"
                         /\ procs'[running_processes'[i]] = "alive"
                    ELSE /\ pc' = "idle"
                         /\ last'.op = "start"
                         /\ last'.out = "Failed"
                         /\ last'.why = "spawnfail"
                         /\ ~Tracked(i)'
                         /\ NoSpawn
         /\ (StartStep(i) /\ ~Alive(i) /\ Tracked(i)') => ~NoSpawn]_vars

\* C15 witness: a start failed at the spawn and the app, whose stale handle
\* that start had evicted, has no entry in the table.
C15_Witness ==
    /\ last.op = "start"
    /\ last.out = "Failed"
    /\ last.why = "spawnfail"
    /\ last.tracked
    /\ ~Tracked(last.id)

\* C16 as stated: a stop of a registered app that has no handle and whose
\* port is above 0 returns true exactly when a process on that port was
\* found and sent SIGTERM; no other signal is sent and the table (and the
\* processes) are as before.  kill_by_port swallows the exception of
\* os.kill and returns True for every non-empty lsof listing.
C16_TrueIffFoundAndSignalled ==
    [][\A i \in Registered(apps) :
         (StopStep(i) /\ ~Tracked(i) /\ apps[i].port > 0) =>
            /\ last'.op = "stop"
            /\ last'.ret <=> (SigTermPort(apps[i].port) \in last'.sigs)
            /\ last'.sigs \subseteq {SigTermPort(apps[i].port)}
            /\ running_processes' = running_processes
            /\ procs' = procs]_vars

\* C16 witness: a stop of an untracked app on a port above 0 with a listener
\* returned true although no signal was delivered.
C16_Witness ==
    /\ last.op = "stop"
    /\ last.out = "Stopped"
    /\ ~last.tracked
    /\ apps[last.id].port > 0
    /\ apps[last.id].port \in listening
    /\ last.ret
    /\ last.sigs = NoSignals

\* C17: in every state reached by add, update, delete, start, stop and
\* status requests (and the other steps), every app that has a handle in
\* the table is in the registry; a delete_app that has completed leaves no
\* handle for the app it removed.
C17_HandlesOfRegisteredApps ==
    /\ TrackedIds \subseteq Registered(apps)
    /\ (last.op = "delete" /\ last.out = "ok") =>
          (last.id \notin Registered(apps) /\ ~Tracked(last.id))

\* C17 witness: an app with a tracked process was deleted, its handle is
\* gone, and another app still has its handle.
C17_Witness ==
    /\ last.op = "delete"
    /\ last.out = "ok"
    /\ last.tracked
    /\ last.id \notin Registered(apps)
    /\ ~Tracked(last.id)
    /\ TrackedIds # {}

\* The step spawned the process that app i's handle points to afterwards.
NewHandle(i) ==
    /\ Tracked(i)'
    /\ procs'[running_processes'[i]] = "alive"
    /\ procs[running_processes'[i]] # "alive"

\* C18: whenever a step writes a new handle for an app, the table held no
\* handle for it or the process of the handle it held had exited; and every
\* app whose tracked process is alive before a start_app step has the same
\* handle, of the same live process, after it.
C18_LiveHandleNeverReplaced ==
    [][\A i \in Ids :
         /\ NewHandle(i) => ~Alive(i)
         /\ ((\E k \in Ids : StartStep(k)) /\ Alive(i)) =>
               /\ running_processes'[i] = running_processes[i]
               /\ procs'[running_processes[i]] = "alive"]_vars

\* C18 witness: a start wrote a new handle for an app whose previous handle,
\* of an exited process, it had found in the table.
C18_Witness ==
    /\ pc = "settle"
    /\ cur.op = "start"
    /\ cur.tracked
    /\ running_processes[cur.id] = cur.spawned
    /\ procs[cur.spawned] = "alive"

\* No app of registry a is on the dashboard's port.
OffDashboard(a) == DashboardPort \notin PortsOf(a, Registered(a))

\* C19: an add_app, update_app or delete_app step taken from a registry in
\* which no app holds port 8000 ends in such a registry and sends no signal
\* to a process on port 8000; and in such a registry the untracked stop of
\* any registered app signals no process on port 8000.
C19_DashboardPortNeverHeld ==
    [][OffDashboard(apps) =>
         /\ OffDashboard(apps')
         /\ SigTermPort(DashboardPort) \notin last'.sigs
         /\ \A i \in Registered(apps'), visible, delivered \in BOOLEAN :
              SigTermPort(DashboardPort) \notin
                  stop_untracked(listening', apps'[i].port, visible, delivered).sigs]_vars

\* C19 witness: an update asked for port 8000, and no app holds it.
C19_Witness ==
    /\ last.op = "update"
    /\ last.out = "ok"
    /\ last.pref = DashboardPort
    /\ OffDashboard(apps)
    /\ DashboardPort \in listening

\* No two apps of registry a have the same port, port 0 included.
AllDistinct(a) ==
    \A i, j \in Registered(a) : i # j => a[i].port # a[j].port

\* C20: when an add_app or update_app prefers port 0 while another app holds
\* port 0, the app gets the successor of the largest of the other apps'
\* ports and 8000, not 0; and every step taken from a registry whose ports
\* are pairwise distinct ends in such a registry, in which at most one app
\* holds port 0.
C20_PortZeroLikeAnyOther ==
    [][/\ (/\ Assigns
           /\ last'.pref = CliPort
           /\ CliPort \in PortsOf(apps, Registered(apps) \ {last'.id}))
            => LET got == apps'[last'.id].port
               IN  /\ got # CliPort
                   /\ got - 1 \in Taken(apps, last'.id)
                   /\ \A u \in Taken(apps, last'.id) : u < got
       /\ AllDistinct(apps) =>
            /\ AllDistinct(apps')
            /\ Cardinality({i \in Registered(apps') : apps'[i].port = CliPort}) <= 1]_vars

\* C20 witness: an app asked for port 0 while another app held it, and got
\* a port that is not 0; all the ports of the registry differ.
C20_Witness ==
    /\ last.op \in {"add", "update"}
    /\ last.out = "ok"
    /\ last.pref = CliPort
    /\ CliPort \in PortsOf(apps, Registered(apps) \ {last.id})
    /\ apps[last.id].port # CliPort
    /\ AllDistinct(apps)

====
